---- MODULE Spec2Model ----
(***************************************************************************)
(* ethabi, src/contract.rs: the Contract aggregate, its construction from  *)
(* a stream of Operations (ContractVisitor::visit_seq) and its accessors.  *)
(*                                                                         *)
(* A String is a finite sequence of bytes, ordered as Rust orders str      *)
(* (lexicographically by byte).  A BTreeMap is the sequence of its         *)
(* (key, value) entries in ascending key order, which is the order its     *)
(* iterators yield.  The body of a Constructor, Function or Event (its     *)
(* inputs, outputs, ...) is opaque to contract.rs; it is a number, and the *)
(* entry decoded at position k of the stream has body k, so that entries   *)
(* sharing a name stay distinguishable.                                    *)
(***************************************************************************)
EXTENDS Naturals, Sequences, FiniteSets

\* Longest input stream explored.
MaxOps == 4

\* The names the stream's entries and the lookups draw from: one is a proper
\* prefix of another, and byte order differs from length order.
Names == {<<1>>, <<1, 2>>, <<2>>}

\* The errors the stream's decoder can raise.
DecodeErrors == {"syntax", "eof"}

VARIABLES
    seen,    \* the Operations next_element has yielded so far, in order
    stream,  \* what next_element last signalled: more elements, the end, or an error
    result,  \* visit_seq's local `result`
    pc,      \* "loop": in the while loop; "done": returned Ok; "failed": returned Err
    ret,     \* what visit_seq returned
    out      \* the last accessor call on the built Contract and its result

vars == <<seen, stream, result, pc, ret, out>>

None == [tag |-> "None"]
Some(v) == [tag |-> "Some", val |-> v]
Ok(v) == [tag |-> "Ok", val |-> v]
Err(e) == [tag |-> "Err", err |-> e]

---------------------------------------------------------------------------
\* Ord for str: lexicographic by byte; a proper prefix is smaller.
RECURSIVE StrLess(_, _)
StrLess(a, b) ==
    IF b = <<>> THEN FALSE
    ELSE IF a = <<>> THEN TRUE
    ELSE IF Head(a) # Head(b) THEN Head(a) < Head(b)
    ELSE StrLess(Tail(a), Tail(b))

Entry(k, v) == [key |-> k, value |-> v]

ContainsKey(m, k) == \E i \in 1..Len(m) : m[i].key = k

\* BTreeMap::get
BTreeGet(m, k) ==
    IF ContainsKey(m, k)
    THEN Some(m[CHOOSE i \in 1..Len(m) : m[i].key = k].value)
    ELSE None

\* An insert that leaves the value of an existing key alone.
BTreeInsertKeepOld(m, k, v) ==
    IF ContainsKey(m, k)
    THEN m
    ELSE SelectSeq(m, LAMBDA e : StrLess(e.key, k))
         \o <<Entry(k, v)>>
         \o SelectSeq(m, LAMBDA e : StrLess(k, e.key))

\* An insert that adds a new key after all others, as an insertion-ordered map does.
BTreeInsertUnsorted(m, k, v) ==
    IF ContainsKey(m, k)
    THEN [i \in 1..Len(m) |-> IF m[i].key = k THEN Entry(k, v) ELSE m[i]]
    ELSE Append(m, Entry(k, v))

\* BTreeMap::insert: replaces the value of an existing key, else adds the
\* entry at its place in key order.
BTreeInsert(m, k, v) ==
    IF ContainsKey(m, k)
    THEN [i \in 1..Len(m) |-> IF m[i].key = k THEN Entry(k, v) ELSE m[i]]
    ELSE SelectSeq(m, LAMBDA e : StrLess(e.key, k))
         \o <<Entry(k, v)>>
         \o SelectSeq(m, LAMBDA e : StrLess(k, e.key))

\* BTreeMap::entry(k).or_default() for a Vec value: an absent key is added
\* with an empty Vec.
EntryOrDefault(m, k) == IF ContainsKey(m, k) THEN m ELSE BTreeInsert(m, k, <<>>)

\* A push that puts the element first.
PushFront(m, k, e) ==
    [i \in 1..Len(m) |-> IF m[i].key = k THEN Entry(k, <<e>> \o m[i].value) ELSE m[i]]

\* A push that reaches the value of every key.
PushAtAll(m, k, e) ==
    [i \in 1..Len(m) |-> Entry(m[i].key, Append(m[i].value, e))]

\* Vec::push on the value at key k.
PushAt(m, k, e) ==
    [i \in 1..Len(m) |-> IF m[i].key = k THEN Entry(k, Append(m[i].value, e)) ELSE m[i]]

\* BTreeMap::values
Values(m) == [i \in 1..Len(m) |-> m[i].value]

\* Iterator::flatten over a sequence of sequences.
RECURSIVE Flatten(_)
Flatten(ss) == IF ss = <<>> THEN <<>> ELSE Head(ss) \o Flatten(Tail(ss))

\* Option::into_iter
IntoIter(o) == IF o.tag = "Some" THEN <<o.val>> ELSE <<>>

\* Iterator::next on a fresh iterator
IterNext(s) == IF s = <<>> THEN None ELSE Some(Head(s))

\* Option::ok_or_else
OkOrElse(o, e) == IF o.tag = "Some" THEN Ok(o.val) ELSE Err(e)

---------------------------------------------------------------------------
\* The Contract visit_seq starts from.
EmptyContract ==
    [constructor |-> None, functions |-> <<>>, events |-> <<>>, fallback |-> FALSE]

\* The match arms of visit_seq.
\* A Constructor arm that keeps the first constructor.
MergeConstructorKeepFirst(r, c) ==
    IF r.constructor.tag = "None" THEN [r EXCEPT !.constructor = Some(c)] ELSE r

MergeConstructor(r, c) == [r EXCEPT !.constructor = Some(c)]

MergeFunction(r, func) == [r EXCEPT !.functions = BTreeInsert(@, func.name, func)]

\* An Event arm that creates the Vec of a new name without pushing to it.
MergeEventNoFirstPush(r, event) ==
    IF ContainsKey(r.events, event.name)
    THEN [r EXCEPT !.events = PushAt(@, event.name, event)]
    ELSE [r EXCEPT !.events = EntryOrDefault(@, event.name)]

MergeEvent(r, event) ==
    [r EXCEPT !.events = PushAt(EntryOrDefault(@, event.name), event.name, event)]

\* A Fallback arm that flips the flag.
MergeFallbackToggle(r) == [r EXCEPT !.fallback = ~@]

MergeFallback(r) == [r EXCEPT !.fallback = TRUE]

\* Accessors of Contract.
constructor(c) == c.constructor

function(c, name) == OkOrElse(BTreeGet(c.functions, name), "Invalid name")

\* An event lookup that takes the first event of the whole map.
event_any(c, name) ==
    OkOrElse(IterNext(Flatten(Values(c.events))), "Invalid name")

event(c, name) ==
    OkOrElse(IterNext(Flatten(IntoIter(BTreeGet(c.events, name)))), "Invalid name")

events_by_name(c, name) == OkOrElse(BTreeGet(c.events, name), "Invalid name")

functions(c) == Values(c.functions)

\* An events iterator that yields one event per name.
events_one_per_name(c) == [i \in 1..Len(c.events) |-> Head(c.events[i].value)]

events(c) == Flatten(Values(c.events))

fallback(c) == c.fallback

\* errors::Error from a serde_json error.
FromError(e) == e

\* Contract::load on the outcome of the deserialization.
load(r) == IF r.tag = "Ok" THEN r ELSE Err(FromError(r.err))

---------------------------------------------------------------------------
Init ==
    /\ seen = <<>>
    /\ stream = [state |-> "open"]
    /\ result = EmptyContract
    /\ pc = "loop"
    /\ ret = None
    /\ out = None

Position == Len(seen) + 1

Consume(op, r) ==
    /\ pc = "loop"
    /\ Len(seen) < MaxOps
    /\ seen' = Append(seen, op)
    /\ result' = r
    /\ UNCHANGED <<stream, pc, ret, out>>

\* next_element yields Some(Operation::Constructor(constructor))
VisitConstructor ==
    LET c == [body |-> Position]
    IN Consume([tag |-> "Constructor", val |-> c], MergeConstructor(result, c))

\* next_element yields Some(Operation::Function(func))
VisitFunction ==
    \E n \in Names :
        LET func == [name |-> n, body |-> Position]
        IN Consume([tag |-> "Function", val |-> func], MergeFunction(result, func))

\* next_element yields Some(Operation::Event(event))
VisitEvent ==
    \E n \in Names :
        LET e == [name |-> n, body |-> Position]
        IN Consume([tag |-> "Event", val |-> e], MergeEvent(result, e))

\* next_element yields Some(Operation::Fallback)
VisitFallback == Consume([tag |-> "Fallback"], MergeFallback(result))

\* next_element yields None: the loop ends and visit_seq returns Ok(result)
VisitEnd ==
    /\ pc = "loop"
    /\ stream' = [state |-> "end"]
    /\ pc' = "done"
    /\ ret' = Ok(result)
    /\ UNCHANGED <<seen, result, out>>

\* A loop that ends on a failed next_element as it does on None.
VisitErrorSwallowed ==
    /\ pc = "loop"
    /\ \E e \in DecodeErrors :
        stream' = [state |-> "error", err |-> [at |-> Position, cause |-> e]]
    /\ pc' = "done"
    /\ ret' = Ok(result)
    /\ UNCHANGED <<seen, result, out>>

\* next_element fails: `?` returns the error from visit_seq
VisitError ==
    /\ pc = "loop"
    /\ \E e \in DecodeErrors :
        LET error == [at |-> Position, cause |-> e]
        IN /\ stream' = [state |-> "error", err |-> error]
           /\ ret' = Err(error)
    /\ pc' = "failed"
    /\ UNCHANGED <<seen, result, out>>

Call(name, arg, res) ==
    /\ pc = "done"
    /\ out' = Some([call |-> name, arg |-> arg, res |-> res])
    /\ UNCHANGED <<seen, stream, result, pc, ret>>

CallConstructor == Call("constructor", <<>>, constructor(ret.val))

CallFunction == \E n \in Names : Call("function", n, function(ret.val, n))

CallEvent == \E n \in Names : Call("event", n, event(ret.val, n))

CallEventsByName == \E n \in Names : Call("events_by_name", n, events_by_name(ret.val, n))

CallFunctions == Call("functions", <<>>, functions(ret.val))

CallEvents == Call("events", <<>>, events(ret.val))

CallFallback == Call("fallback", <<>>, fallback(ret.val))

Next ==
    \/ VisitConstructor
    \/ VisitFunction
    \/ VisitEvent
    \/ VisitFallback
    \/ VisitEnd
    \/ VisitError
    \/ CallConstructor
    \/ CallFunction
    \/ CallEvent
    \/ CallEventsByName
    \/ CallFunctions
    \/ CallEvents
    \/ CallFallback

Spec == Init /\ [][Next]_vars

---------------------------------------------------------------------------
\* The input as the caller wrote it, read off `seen`.

Built == pc = "done"

Positions == 1..Len(seen)

ConstructorsAt == {i \in Positions : seen[i].tag = "Constructor"}

FunctionsAt(n) == {i \in Positions : seen[i].tag = "Function" /\ seen[i].val.name = n}

EventsAt(n) == {i \in Positions : seen[i].tag = "Event" /\ seen[i].val.name = n}

FallbacksAt == {i \in Positions : seen[i].tag = "Fallback"}

AllFunctionsAt == {i \in Positions : seen[i].tag = "Function"}

AllEventsAt == {i \in Positions : seen[i].tag = "Event"}

Last(S) == CHOOSE i \in S : \A j \in S : j <= i

First(S) == CHOOSE i \in S : \A j \in S : i <= j

\* The entries at the positions S, in input order.
RECURSIVE EntriesAt(_)
EntriesAt(S) == IF S = {} THEN <<>> ELSE EntriesAt(S \ {Last(S)}) \o <<seen[Last(S)].val>>

\* Ascending order of names: a differs from b, and at the first place where
\* they differ a has ended or has the smaller byte.
NameBefore(a, b) ==
    \E k \in 1..Len(b) :
        /\ \A i \in 1..(k - 1) : i <= Len(a) /\ a[i] = b[i]
        /\ \/ Len(a) = k - 1
           \/ Len(a) >= k /\ a[k] < b[k]

Called(name, arg) == out.tag = "Some" /\ out.val.call = name /\ out.val.arg = arg

Keys(m) == {m[i].key : i \in 1..Len(m)}

---------------------------------------------------------------------------
\* C1: when the input holds Function entries named n, function(n) on the
\* built Contract returns the one at the last such position, and functions()
\* yields exactly one entry named n.
C1_LastFunctionWins ==
    Built =>
        \A n \in Names :
            FunctionsAt(n) # {} =>
                /\ function(ret.val, n) = Ok(seen[Last(FunctionsAt(n))].val)
                /\ Cardinality({i \in 1..Len(functions(ret.val)) :
                                    functions(ret.val)[i].name = n}) = 1

C1_Witness ==
    /\ Built
    /\ \E n \in Names :
        /\ Cardinality(FunctionsAt(n)) >= 2
        /\ Called("function", n)
        /\ out.val.res = Ok(seen[Last(FunctionsAt(n))].val)

\* C2: when the input holds Event entries named n, events_by_name(n) returns
\* exactly those entries in input order, and event(n) returns the earliest.
C2_EventsKeptInOrder ==
    Built =>
        \A n \in Names :
            EventsAt(n) # {} =>
                /\ events_by_name(ret.val, n) = Ok(EntriesAt(EventsAt(n)))
                /\ event(ret.val, n) = Ok(seen[First(EventsAt(n))].val)

C2_Witness ==
    /\ Built
    /\ \E n \in Names :
        /\ Cardinality(EventsAt(n)) >= 2
        /\ \E i \in Positions \ EventsAt(n) :
              First(EventsAt(n)) < i /\ i < Last(EventsAt(n))
        /\ Called("events_by_name", n)
        /\ out.val.res = Ok(EntriesAt(EventsAt(n)))

OkOrInvalidName(r) == r.tag = "Ok" \/ (r.tag = "Err" /\ r.err = "Invalid name")

\* C3: function(n) fails exactly when the input holds no Function named n;
\* event(n) and events_by_name(n) fail exactly when it holds no Event named
\* n; every failure is "Invalid name".
C3_InvalidNameOnlyWhenAbsent ==
    Built =>
        \A n \in Names :
            LET f == function(ret.val, n)
                e == event(ret.val, n)
                es == events_by_name(ret.val, n)
            IN /\ f.tag = "Err" <=> FunctionsAt(n) = {}
               /\ e.tag = "Err" <=> EventsAt(n) = {}
               /\ es.tag = "Err" <=> EventsAt(n) = {}
               /\ OkOrInvalidName(f) /\ OkOrInvalidName(e) /\ OkOrInvalidName(es)

C3_Witness ==
    /\ Built
    /\ \E n, m \in Names :
        /\ n # m
        /\ EventsAt(n) = {} /\ FunctionsAt(n) # {}
        /\ EventsAt(m) # {}
        /\ Called("event", n)
        /\ out.val.res = Err("Invalid name")

\* C4: the fallback flag starts false, is true on the built Contract exactly
\* when the input holds a Fallback operation, never goes from true to false,
\* and a second Fallback operation leaves the Contract as it was.
C4_Fallback ==
    /\ ~fallback(result)
    /\ [](fallback(result) <=> FallbacksAt # {})
    /\ [](Built => (fallback(ret.val) <=> FallbacksAt # {}))
    /\ [][/\ fallback(result) => fallback(result')
          /\ (/\ FallbacksAt # {}
              /\ seen' = Append(seen, [tag |-> "Fallback"])) => result' = result]_vars

C4_Witness ==
    /\ Built
    /\ Cardinality(FallbacksAt) >= 2
    /\ Last(FallbacksAt) < Len(seen)
    /\ Called("fallback", <<>>)
    /\ out.val.res = TRUE

\* C5: functions() yields as many items as the input has distinct Function
\* names, and events() as many as the input has Event entries.
C5_Counts ==
    Built =>
        /\ Len(functions(ret.val)) = Cardinality({n \in Names : FunctionsAt(n) # {}})
        /\ Len(events(ret.val)) = Cardinality(AllEventsAt)
        /\ seen = <<>> => Len(functions(ret.val)) = 0 /\ Len(events(ret.val)) = 0

C5_Witness ==
    /\ Built
    /\ \E n \in Names : Cardinality(EventsAt(n)) >= 2
    /\ \E n \in Names : Cardinality(FunctionsAt(n)) >= 2
    /\ Called("events", <<>>)
    /\ Len(out.val.res) = 2

\* C6: constructor() is absent exactly when the input holds no Constructor
\* operation, and otherwise is the Constructor of the last one.
C6_LastConstructorWins ==
    Built =>
        /\ constructor(ret.val) = None <=> ConstructorsAt = {}
        /\ ConstructorsAt # {} =>
              constructor(ret.val) = Some(seen[Last(ConstructorsAt)].val)

C6_Witness ==
    /\ Built
    /\ Cardinality(ConstructorsAt) >= 2
    /\ Called("constructor", <<>>)
    /\ out.val.res = Some(seen[Last(ConstructorsAt)].val)

\* C7: when decoding an element fails, the build returns that error and no
\* Contract, whatever was decoded before, and processes nothing more; a
\* Contract is returned only once the stream has signalled its end.
C7_FailureIsFatal ==
    /\ [](stream.state = "error" =>
            /\ ret = Err(stream.err)
            /\ stream.err.at = Len(seen) + 1
            /\ load(ret).tag = "Err")
    /\ [](ret.tag = "Ok" => stream.state = "end" /\ ret.val = result)
    /\ [](stream.state = "open" => ret = None)
    /\ [][stream.state = "error" => UNCHANGED vars]_vars

C7_Witness ==
    /\ stream.state = "error"
    /\ Len(seen) >= 2
    /\ result # EmptyContract
    /\ ret.tag = "Err"

\* C8: functions() yields the functions in ascending order of name; events()
\* yields the events in ascending order of name and, within one name, in
\* input order: it is the per-name input sequences joined in name order.
C8_IterationOrder ==
    Built =>
        LET fs == functions(ret.val)
            es == events(ret.val)
        IN /\ \A i, j \in 1..Len(fs) : i < j => NameBefore(fs[i].name, fs[j].name)
           /\ \A i, j \in 1..Len(es) :
                 i < j => \/ NameBefore(es[i].name, es[j].name)
                          \/ es[i].name = es[j].name /\ es[i].body < es[j].body
           /\ {fs[i] : i \in 1..Len(fs)} =
                 {seen[Last(FunctionsAt(n))].val : n \in {m \in Names : FunctionsAt(m) # {}}}
           /\ {es[i] : i \in 1..Len(es)} = {seen[i].val : i \in AllEventsAt}

C8_Witness ==
    /\ Built
    /\ \E i, j, k \in AllEventsAt :
        /\ i < j /\ j < k
        /\ seen[i].val.name = seen[k].val.name
        /\ NameBefore(seen[j].val.name, seen[i].val.name)
    /\ Called("events", <<>>)
    /\ Len(out.val.res) = 3

\* C9: in every state of the build each key of functions maps to a Function
\* of that name, each key of events maps to a non-empty sequence of Events of
\* that name, and no key is ever removed.
C9_KeysMatchNames ==
    /\ [](/\ \A i \in 1..Len(result.functions) :
               result.functions[i].value.name = result.functions[i].key
          /\ \A i \in 1..Len(result.events) :
               /\ result.events[i].value # <<>>
               /\ \A j \in 1..Len(result.events[i].value) :
                     result.events[i].value[j].name = result.events[i].key)
    /\ [][/\ Keys(result.functions) \subseteq Keys(result'.functions)
          /\ Keys(result.events) \subseteq Keys(result'.events)]_vars

C9_Witness ==
    /\ pc = "loop"
    /\ Cardinality(Keys(result.events)) >= 2
    /\ Cardinality(Keys(result.functions)) >= 2

\* C10: a Constructor operation changes only the constructor field, a
\* Function operation named n only the functions entry of n, an Event
\* operation named n only the events sequence of n, which gains the event at
\* its end, and a Fallback operation only the fallback flag.
C10_Frame ==
    [][seen' # seen =>
        LET op == seen'[Len(seen')]
        IN /\ op.tag # "Constructor" => result'.constructor = result.constructor
           /\ op.tag # "Function" => result'.functions = result.functions
           /\ op.tag # "Event" => result'.events = result.events
           /\ op.tag # "Fallback" => result'.fallback = result.fallback
           /\ op.tag = "Function" =>
                 \A n \in Names \ {op.val.name} :
                     function(result', n) = function(result, n)
           /\ op.tag = "Event" =>
                 /\ \A n \in Names \ {op.val.name} :
                       /\ events_by_name(result', n) = events_by_name(result, n)
                       /\ event(result', n) = event(result, n)
                 /\ events_by_name(result', op.val.name).val =
                       Append(IF events_by_name(result, op.val.name).tag = "Ok"
                              THEN events_by_name(result, op.val.name).val
                              ELSE <<>>, op.val)
                 /\ function(result', op.val.name) = function(result, op.val.name)
           /\ op.tag = "Function" =>
                 /\ event(result', op.val.name) = event(result, op.val.name)
                 /\ events_by_name(result', op.val.name) =
                       events_by_name(result, op.val.name)]_vars

C10_Witness ==
    /\ pc = "loop"
    /\ \E n \in Names :
        /\ FunctionsAt(n) # {} /\ EventsAt(n) # {}
        /\ \E m \in Names \ {n} : EventsAt(m) # {}
        /\ Last(FunctionsAt(n)) < Last(EventsAt(n))

====
